---- MODULE Spec2Model ----
(***************************************************************************)
(* Model of src/main.py: the CSV/JSON tool-dataset backend.                *)
(*                                                                         *)
(*   - _normalize_row : alias resolution of one raw record                 *)
(*   - load_data      : TTL cache over a remote dataset (_cache)           *)
(*   - GET /datos, POST /consulta : the two request handlers               *)
(*                                                                         *)
(* The handlers are plain `def` functions, which the framework runs on a  *)
(* thread pool, so several requests execute load_data concurrently.  Each  *)
(* thread's position (pc) is a point where another thread can run: a      *)
(* network call in flight, or a boundary between two statements that read  *)
(* or write the shared _cache.                                             *)
(***************************************************************************)
EXTENDS Integers, Sequences, FiniteSets, TLC

\* ------------------------------------------------------------------ bounds
NumThreads == 2     \* request threads running at once
MaxTicks == 2       \* clock ticks (seconds) the model lets pass
MaxRequests == 3    \* requests the model lets arrive
MaxKeys == 2        \* keys of a raw record in NormSpec

\* CACHE_TTL_SECONDS is read from the environment (line 13); the model runs
\* the service with a TTL of two seconds.
CACHE_TTL_SECONDS == 2

Threads == 1..NumThreads

\* time.time() at process start: the process starts more than one TTL after
\* the epoch, which is where _cache["ts"] = 0 points.
StartTime == CACHE_TTL_SECONDS + 1

VARIABLES
  DATA_URL,            \* line 10 (fixed by the environment)
  OPENROUTER_API_KEY,  \* line 11 (fixed by the environment)
  clock,               \* time.time()
  requests,            \* requests that have arrived so far
  _cache,              \* line 26: [ts, rows]
  cacheBy,             \* history: the call that wrote each field of _cache
  pc,                  \* per thread: position in its handler
  kind,                \* per thread: "load" | "datos" | "consulta"
  force,               \* per thread: load_data's force argument
  gate,                \* per thread: outcome of line 51 ("" before it runs)
  now,                 \* per thread: load_data's local `now`
  rows,                \* per thread: load_data's local `rows` (lines 61-73)
  fetches,             \* per thread: requests.get calls issued by this request
  llmCalls,            \* per thread: requests.post calls issued by this request
  llm,                 \* per thread: consulta's local `resp`
  result,              \* per thread: the response of the request
  raw,                 \* NormSpec: the raw record given to _normalize_row
  norm                 \* NormSpec: the record _normalize_row returned

cfgvars == <<DATA_URL, OPENROUTER_API_KEY>>
tvars == <<pc, kind, force, gate, now, rows, fetches, llmCalls, llm, result>>
nvars == <<raw, norm>>
vars == <<DATA_URL, OPENROUTER_API_KEY, clock, requests, _cache, cacheBy, pc, kind, force,
          gate, now, rows, fetches, llmCalls, llm, result, raw, norm>>

\* ------------------------------------------------------- _normalize_row
\* A cell of a raw record: a string, or None (csv.DictReader's restval, a
\* JSON null).
None == [isNone |-> TRUE, s |-> ""]
S(str) == [isNone |-> FALSE, s |-> str]

\* Python truthiness of a cell (`row[key]` in line 43).
Truthy(cell) == ~cell.isNone /\ cell.s # ""

\* str(row[key]) in line 44.
Str(cell) == IF cell.isNone THEN "None" ELSE cell.s

\* REQUIRED_COLS / the keys of `mapping`, in order.
REQUIRED_COLS ==
  <<"nombre", "nivel de dificultad", "subcategoria", "descripción", "enlace", "tutorial">>

\* `mapping` of lines 31-38: target -> aliases in priority order.
mapping(target) ==
  CASE target = "nombre" ->
         <<"nombre", "Nombre", "NOMBRE", "Nombre de la herramienta">>
    [] target = "nivel de dificultad" ->
         <<"nivel de dificultad", "nivel", "Nivel", "Nivel de dificultad">>
    [] target = "subcategoria" ->
         <<"subcategoria", "Subcategoria", "SUBCATEGORIA", "Subcategorías">>
    [] target = "descripción" ->
         <<"descripción", "descripcion", "Descripcion", "Descripción">>
    [] target = "enlace" -> <<"enlace", "link", "URL", "Link">>
    [] target = "tutorial" -> <<"tutorial", "Tutorial">>

Range(seq) == {seq[i] : i \in DOMAIN seq}

Targets == Range(REQUIRED_COLS)

RECURSIVE ResolveFrom(_, _, _)

\* The inner loop without its `break`: the last matching alias wins.
ResolveFromLast(row, aliases, i) ==
  LET hits == {j \in i..Len(aliases) :
                 aliases[j] \in DOMAIN row /\ Truthy(row[aliases[j]])}
  IN IF hits = {} THEN ""
     ELSE Str(row[aliases[CHOOSE j \in hits : \A k \in hits : k <= j]])

\* The inner loop of lines 41-45 from alias i on: the first alias that is a
\* key of the row with a truthy value gives the value, "" when there is none.
ResolveFrom(row, aliases, i) ==
  IF i > Len(aliases) THEN ""
  ELSE IF aliases[i] \in DOMAIN row /\ Truthy(row[aliases[i]])
       THEN Str(row[aliases[i]])
       ELSE ResolveFrom(row, aliases, i + 1)

\* _normalize_row, lines 30-47.
_normalize_row(row) == [target \in Targets |-> ResolveFrom(row, mapping(target), 1)]

NormalizeAll(recs) == [i \in DOMAIN recs |-> _normalize_row(recs[i])]

\* ------------------------------------------------------------- the inputs
\* Raw records for the server model.
RawFoo == ("nombre" :> S("Foo")) @@ ("nivel" :> S("Easy")) @@ ("enlace" :> S("http://x"))
RawBar == ("nombre" :> S("")) @@ ("Nombre de la herramienta" :> S("Bar"))
            @@ ("Link" :> S("http://y")) @@ ("tutorial" :> None)

\* What the source can serve: no record (a CSV of headers only, an empty
\* JSON list), one record, two records.
RawDatasets == {<< >>, <<RawFoo>>, <<RawFoo, RawBar>>}

\* DATA_URL: not configured, a CSV export, a JSON document.
DataUrls == {"", "https://host/tools.csv", "https://host/tools.json"}

\* DATA_URL.lower().endswith(".json"), line 62.
IsJsonUrl(url) == url = "https://host/tools.json"

ApiKeys == {"", "sk-or-key"}

\* What requests.get(DATA_URL) can come back with.  net = "fail": the call
\* raises (connection error, timeout).  Otherwise a status and a body:
\*   json   the body parses as JSON (resp.json() does not raise)
\*   top    the JSON value's type: "list", "dict" or "scalar"
\*   key    a dict that has the key "herramientas"
\*   inner  the type of data["herramientas"]: "list" or "scalar"
\*   items  the list's elements: "records" (dicts), or "numbers" for a
\*          non-empty list of JSON numbers
\*   recs   the records (of the list, or the CSV lines under the header)
NoBody == [json |-> FALSE, top |-> "", key |-> FALSE, inner |-> "", items |-> "", recs |-> << >>]

FetchFailed == [net |-> "fail", status |-> 0, body |-> NoBody]

Bodies(url) ==
  IF IsJsonUrl(url)
  THEN {[json |-> TRUE, top |-> "list", key |-> FALSE, inner |-> "", items |-> "records", recs |-> d]
          : d \in RawDatasets}
       \cup {[json |-> TRUE, top |-> "dict", key |-> TRUE, inner |-> "list", items |-> "records", recs |-> d]
          : d \in RawDatasets}
       \cup {[json |-> TRUE, top |-> "dict", key |-> TRUE, inner |-> "scalar", items |-> "", recs |-> << >>],
             [json |-> TRUE, top |-> "dict", key |-> FALSE, inner |-> "", items |-> "", recs |-> << >>],
             [json |-> TRUE, top |-> "scalar", key |-> FALSE, inner |-> "", items |-> "", recs |-> << >>],
             [json |-> TRUE, top |-> "list", key |-> FALSE, inner |-> "", items |-> "numbers", recs |-> << >>],
             NoBody}
  ELSE {[json |-> FALSE, top |-> "", key |-> FALSE, inner |-> "", items |-> "records", recs |-> d]
          : d \in RawDatasets}

FetchResponses(url) ==
  {FetchFailed}
  \cup {[net |-> "ok", status |-> st, body |-> NoBody] : st \in {404}}
  \cup {[net |-> "ok", status |-> 200, body |-> b] : b \in Bodies(url)}

\* Lines 57-73 on a response: the rows, or the exception's message.
Rows(rs) == [ok |-> TRUE, rows |-> rs, err |-> ""]
Error(msg) == [ok |-> FALSE, rows |-> << >>, err |-> msg]

InvalidJson == "JSON inválido: se esperaba lista o clave 'herramientas'"

ParseJson(b) ==
  IF ~b.json THEN Error("JSONDecodeError")                      \* line 63 raises
  ELSE LET unwrapped == b.top = "dict" /\ b.key                  \* line 64
           type == IF unwrapped THEN b.inner ELSE b.top          \* line 65
       IN IF type # "list" THEN Error(InvalidJson)               \* lines 66-67
          ELSE IF b.items = "numbers" THEN Error("TypeError")    \* line 43 on a non-dict
          ELSE Rows(NormalizeAll(b.recs))                        \* lines 68-69

ParseResponse(url, r) ==
  IF r.net # "ok" THEN Error("ConnectionError")                  \* line 57 raises
  ELSE IF r.status # 200
       THEN Error("No se pudo descargar datos (" \o ToString(r.status) \o ")")
  ELSE IF IsJsonUrl(url) THEN ParseJson(r.body)
  ELSE Rows(NormalizeAll(r.body.recs))                           \* lines 71-73

\* What requests.post to the chat-completion endpoint can come back with:
\*   choices  "absent" | "empty" | "one"      data["choices"]
\*   message  "absent" | "null" | "dict"      choices[0]["message"]
\*   content  absent, None or a string        message["content"]
NoContent == [present |-> FALSE, isNone |-> FALSE, s |-> ""]
NullContent == [present |-> TRUE, isNone |-> TRUE, s |-> ""]
Content(str) == [present |-> TRUE, isNone |-> FALSE, s |-> str]

Htmls == {"<table>A</table>", "<table>B</table>"}

LlmShape(ch, msg, c) ==
  [net |-> "ok", status |-> 200, json |-> TRUE, top |-> "dict",
   choices |-> ch, message |-> msg, content |-> c]

LlmResponses ==
  {[net |-> "fail", status |-> 0, json |-> FALSE, top |-> "",
    choices |-> "absent", message |-> "absent", content |-> NoContent]}
  \cup {[net |-> "ok", status |-> 500, json |-> TRUE, top |-> "dict",
         choices |-> "absent", message |-> "absent", content |-> NoContent]}
  \cup {[net |-> "ok", status |-> 200, json |-> FALSE, top |-> "",
         choices |-> "absent", message |-> "absent", content |-> NoContent],
        [net |-> "ok", status |-> 200, json |-> TRUE, top |-> "list",
         choices |-> "absent", message |-> "absent", content |-> NoContent]}
  \cup {LlmShape("absent", "absent", NoContent), LlmShape("empty", "absent", NoContent),
        LlmShape("one", "absent", NoContent), LlmShape("one", "null", NoContent),
        LlmShape("one", "dict", NoContent), LlmShape("one", "dict", NullContent),
        LlmShape("one", "dict", Content(""))}
  \cup {LlmShape("one", "dict", Content(h)) : h \in Htmls}

NoLlm == [net |-> "", status |-> 0, json |-> FALSE, top |-> "",
          choices |-> "absent", message |-> "absent", content |-> NoContent]

Html(h) == [ok |-> TRUE, html |-> h, err |-> ""]
LlmError(msg) == [ok |-> FALSE, html |-> "", err |-> msg]

\* Lines 137-142 without the `if not html` check of line 140.
ExtractNoEmptyCheck(r) ==
  IF r.net # "ok" THEN LlmError("ConnectionError")
  ELSE IF r.status >= 400 THEN LlmError("HTTPError")
  ELSE IF ~r.json THEN LlmError("JSONDecodeError")
  ELSE IF r.top # "dict" THEN LlmError("AttributeError")
  ELSE IF r.choices = "empty" THEN LlmError("IndexError")
  ELSE LET first == IF r.choices = "absent" THEN "absent" ELSE r.message
       IN IF first = "null" THEN LlmError("AttributeError")
          ELSE Html(IF first = "absent" \/ ~r.content.present \/ r.content.isNone
                    THEN "" ELSE r.content.s)

\* Line 139: data.get("choices", [{}])[0].get("message", {}).get("content", "")
\* and line 140.  A truthy content is returned; anything falsy is the
\* empty-response error; a value that has no .get or no [0] raises.
Extract(r) ==
  IF r.net # "ok" THEN LlmError("ConnectionError")               \* line 122 raises
  ELSE IF r.status >= 400 THEN LlmError("HTTPError")             \* line 137
  ELSE IF ~r.json THEN LlmError("JSONDecodeError")               \* line 138
  ELSE IF r.top # "dict" THEN LlmError("AttributeError")         \* list.get
  ELSE IF r.choices = "empty" THEN LlmError("IndexError")        \* [][0]
  ELSE LET first == IF r.choices = "absent" THEN "absent" ELSE r.message
       IN IF first = "null" THEN LlmError("AttributeError")      \* None.get
          ELSE LET html == IF first = "absent" \/ ~r.content.present \/ r.content.isNone
                           THEN "" ELSE r.content.s
               IN IF html = "" THEN LlmError("Respuesta vacía del modelo")
                  ELSE Html(html)

\* ------------------------------------------------------------ the server
NoResult == [status |-> "none", code |-> 0, detail |-> "", rows |-> << >>, count |-> 0, html |-> ""]

EmptyCache == [ts |-> 0, rows |-> << >>]

InitServer(url, key) ==
  /\ DATA_URL = url
  /\ OPENROUTER_API_KEY = key
  /\ clock = StartTime
  /\ requests = 0
  /\ _cache = EmptyCache
  /\ cacheBy = [ts |-> 0, rows |-> 0]
  /\ pc = [t \in Threads |-> "idle"]
  /\ kind = [t \in Threads |-> ""]
  /\ force = [t \in Threads |-> FALSE]
  /\ gate = [t \in Threads |-> ""]
  /\ now = [t \in Threads |-> 0]
  /\ rows = [t \in Threads |-> << >>]
  /\ fetches = [t \in Threads |-> 0]
  /\ llmCalls = [t \in Threads |-> 0]
  /\ llm = [t \in Threads |-> NoLlm]
  /\ result = [t \in Threads |-> NoResult]

NoRow == [target \in {} |-> ""]

Init ==
  /\ \E url \in DataUrls, key \in ApiKeys : InitServer(url, key)
  /\ raw = NoRow
  /\ norm = NoRow

\* time.time() advances.
Tick ==
  /\ clock < StartTime + MaxTicks
  /\ clock' = clock + 1
  /\ UNCHANGED <<cfgvars, requests, _cache, cacheBy, tvars, nvars>>

\* Line 51 with `<=` for `<`.
FreshLe(f, c, n) == ~f /\ c.rows # << >> /\ n - c.ts <= CACHE_TTL_SECONDS

\* Line 51: serve from the cache?  (The two reads of _cache in the condition
\* are taken at one instant; line 52 reads _cache["rows"] again, later.)
Fresh(f, c, n) == ~f /\ c.rows # << >> /\ n - c.ts < CACHE_TTL_SECONDS

\* load_data returned rs to the handler of kind k (lines 87, 103-122): the
\* handler's position, its response, and whether it now calls the LLM.
Returned(k, rs) ==
  CASE k = "load" ->
         [pc |-> "done", post |-> 0,
          result |-> [NoResult EXCEPT !.status = "ok", !.rows = rs]]
    [] k = "datos" ->
         [pc |-> "done", post |-> 0,
          result |-> [NoResult EXCEPT !.status = "ok", !.code = 200,
                                      !.rows = rs, !.count = Len(rs)]]
    [] k = "consulta" ->
         [pc |-> "llm", post |-> 1, result |-> NoResult]

\* A /datos handler that swallows the exception and answers an empty list.
RaisedSwallowed(k, msg) ==
  CASE k = "load" -> [NoResult EXCEPT !.status = "error", !.detail = msg]
    [] k = "datos" -> [NoResult EXCEPT !.status = "ok", !.code = 200]
    [] k = "consulta" ->
         [NoResult EXCEPT !.status = "error", !.code = 500,
                          !.detail = "Error cargando datos: " \o msg]

\* load_data raised msg in the handler of kind k (lines 88-89, 100-101).
Raised(k, msg) ==
  CASE k = "load" -> [NoResult EXCEPT !.status = "error", !.detail = msg]
    [] k = "datos" -> [NoResult EXCEPT !.status = "error", !.code = 500, !.detail = msg]
    [] k = "consulta" ->
         [NoResult EXCEPT !.status = "error", !.code = 500,
                          !.detail = "Error cargando datos: " \o msg]

\* load_data without the check of line 54.
LoadDataBeginNoUrlCheck(t, k, f) ==
  /\ kind' = [kind EXCEPT ![t] = k]
  /\ force' = [force EXCEPT ![t] = f]
  /\ IF Fresh(f, _cache, clock)                                       \* lines 50-51
     THEN /\ gate' = [gate EXCEPT ![t] = "hit"]
          /\ pc' = [pc EXCEPT ![t] = "hit"]
          /\ now' = [now EXCEPT ![t] = clock]
          /\ UNCHANGED <<fetches, result>>
     ELSE /\ gate' = [gate EXCEPT ![t] = "miss"]
          /\ pc' = [pc EXCEPT ![t] = "fetching"]
          /\ now' = [now EXCEPT ![t] = clock]
          /\ fetches' = [fetches EXCEPT ![t] = @ + 1]
          /\ UNCHANGED result
  /\ requests' = requests + 1
  /\ UNCHANGED <<cfgvars, clock, _cache, cacheBy, rows, llmCalls, llm, nvars>>

\* load_data that issues no fetch of its own while another call's fetch is in
\* flight, and takes what that call stores.
LoadDataBeginSingleFlight(t, k, f) ==
  /\ kind' = [kind EXCEPT ![t] = k]
  /\ force' = [force EXCEPT ![t] = f]
  /\ IF Fresh(f, _cache, clock)                                       \* lines 50-51
     THEN /\ gate' = [gate EXCEPT ![t] = "hit"]
          /\ pc' = [pc EXCEPT ![t] = "hit"]
          /\ now' = [now EXCEPT ![t] = clock]
          /\ UNCHANGED <<fetches, result>>
     ELSE /\ gate' = [gate EXCEPT ![t] = "miss"]
          /\ IF DATA_URL = ""                                         \* line 54
             THEN /\ pc' = [pc EXCEPT ![t] = "done"]
                  /\ result' = [result EXCEPT ![t] = Raised(k, "No se configuró DATA_URL")]
                  /\ UNCHANGED <<now, fetches>>
             ELSE IF \E u \in Threads : pc[u] = "fetching"
             THEN /\ pc' = [pc EXCEPT ![t] = "hit"]
                  /\ now' = [now EXCEPT ![t] = clock]
                  /\ UNCHANGED <<fetches, result>>
             ELSE /\ pc' = [pc EXCEPT ![t] = "fetching"]
                  /\ now' = [now EXCEPT ![t] = clock]
                  /\ fetches' = [fetches EXCEPT ![t] = @ + 1]
                  /\ UNCHANGED result
  /\ requests' = requests + 1
  /\ UNCHANGED <<cfgvars, clock, _cache, cacheBy, rows, llmCalls, llm, nvars>>

\* load_data(force = f) starts in thread t for a handler of kind k: lines
\* 50-57 up to the point where requests.get is in flight.
LoadDataBegin(t, k, f) ==
  /\ kind' = [kind EXCEPT ![t] = k]
  /\ force' = [force EXCEPT ![t] = f]
  /\ IF Fresh(f, _cache, clock)                                       \* lines 50-51
     THEN /\ gate' = [gate EXCEPT ![t] = "hit"]
          /\ pc' = [pc EXCEPT ![t] = "hit"]
          /\ now' = [now EXCEPT ![t] = clock]
          /\ UNCHANGED <<fetches, result>>
     ELSE /\ gate' = [gate EXCEPT ![t] = "miss"]
          /\ IF DATA_URL = ""                                         \* line 54
             THEN /\ pc' = [pc EXCEPT ![t] = "done"]
                  /\ result' = [result EXCEPT ![t] = Raised(k, "No se configuró DATA_URL")]
                  /\ UNCHANGED <<now, fetches>>
             ELSE /\ pc' = [pc EXCEPT ![t] = "fetching"]              \* line 57
                  /\ now' = [now EXCEPT ![t] = clock]
                  /\ fetches' = [fetches EXCEPT ![t] = @ + 1]
                  /\ UNCHANGED result
  /\ requests' = requests + 1
  /\ UNCHANGED <<cfgvars, clock, _cache, cacheBy, rows, llmCalls, llm, nvars>>

\* A direct call of load_data(force).
CallLoadData(t, f) ==
  /\ pc[t] = "idle"
  /\ requests < MaxRequests
  /\ LoadDataBegin(t, "load", f)

\* GET /datos, lines 83-86.
GetDatos(t) ==
  /\ pc[t] = "idle"
  /\ requests < MaxRequests
  /\ LoadDataBegin(t, "datos", FALSE)

\* POST /consulta that calls load_data before it looks at the credential.
PostConsultaLoadsFirst(t) ==
  /\ pc[t] = "idle"
  /\ requests < MaxRequests
  /\ LoadDataBegin(t, "consulta", FALSE)

\* POST /consulta, lines 94-99.
PostConsulta(t) ==
  /\ pc[t] = "idle"
  /\ requests < MaxRequests
  /\ IF OPENROUTER_API_KEY = ""                                       \* line 96
     THEN /\ kind' = [kind EXCEPT ![t] = "consulta"]
          /\ pc' = [pc EXCEPT ![t] = "done"]
          /\ result' = [result EXCEPT ![t] =
               [NoResult EXCEPT !.status = "error", !.code = 500,
                                !.detail = "OPENROUTER_API_KEY no configurada"]]
          /\ requests' = requests + 1
          /\ UNCHANGED <<cfgvars, clock, _cache, cacheBy, force, gate, now, rows,
                         fetches, llmCalls, llm, nvars>>
     ELSE LoadDataBegin(t, "consulta", FALSE)                         \* line 99

\* load_data hands rs back to its caller (its locals now and rows are
\* gone), whose handler runs on to its response or to the LLM call.
Return(t, rs) ==
  LET next == Returned(kind[t], rs)
  IN /\ pc' = [pc EXCEPT ![t] = next.pc]
     /\ result' = [result EXCEPT ![t] = next.result]
     /\ llmCalls' = [llmCalls EXCEPT ![t] = @ + next.post]
     /\ now' = [now EXCEPT ![t] = 0]
     /\ rows' = [rows EXCEPT ![t] = << >>]

\* Line 52: return _cache["rows"].
ReturnCached(t) ==
  /\ pc[t] = "hit"
  /\ Return(t, _cache.rows)
  /\ UNCHANGED <<cfgvars, clock, requests, _cache, cacheBy, kind, force, gate, fetches, llm, nvars>>

\* load_data that drops the cached rows when the fetch fails.
FetchResponseDropsCache(t, r) ==
  /\ pc[t] = "fetching"
  /\ LET parsed == ParseResponse(DATA_URL, r)
     IN IF parsed.ok
        THEN /\ rows' = [rows EXCEPT ![t] = parsed.rows]
             /\ _cache' = [_cache EXCEPT !.rows = parsed.rows]
             /\ cacheBy' = [rows |-> t, ts |-> IF cacheBy.ts = t THEN -t ELSE cacheBy.ts]
             /\ pc' = [pc EXCEPT ![t] = "store_ts"]
             /\ UNCHANGED <<now, result>>
        ELSE /\ pc' = [pc EXCEPT ![t] = "done"]
             /\ result' = [result EXCEPT ![t] = Raised(kind[t], parsed.err)]
             /\ now' = [now EXCEPT ![t] = 0]
             /\ _cache' = [_cache EXCEPT !.rows = << >>]
             /\ UNCHANGED <<cacheBy, rows>>
  /\ UNCHANGED <<cfgvars, clock, requests, kind, force, gate, fetches, llmCalls, llm, nvars>>

\* requests.get comes back with r, and the thread runs on from line 58: it
\* raises, or it parses and normalises the body (its own data only) and
\* executes line 75, _cache["rows"] = rows.
FetchResponse(t, r) ==
  /\ pc[t] = "fetching"
  /\ LET parsed == ParseResponse(DATA_URL, r)
     IN IF parsed.ok
        THEN /\ rows' = [rows EXCEPT ![t] = parsed.rows]
             /\ _cache' = [_cache EXCEPT !.rows = parsed.rows]
             /\ cacheBy' = [rows |-> t, ts |-> IF cacheBy.ts = t THEN -t ELSE cacheBy.ts]
             /\ pc' = [pc EXCEPT ![t] = "store_ts"]
             /\ UNCHANGED <<now, result>>
        ELSE /\ pc' = [pc EXCEPT ![t] = "done"]
             /\ result' = [result EXCEPT ![t] = Raised(kind[t], parsed.err)]
             /\ now' = [now EXCEPT ![t] = 0]
             /\ UNCHANGED <<_cache, cacheBy, rows>>
  /\ UNCHANGED <<cfgvars, clock, requests, kind, force, gate, fetches, llmCalls, llm, nvars>>

\* The fetch of thread t comes back with any response the source can give.
Fetched(t) == \E r \in FetchResponses(DATA_URL) : FetchResponse(t, r)

\* Lines 76-77: _cache["ts"] = now; return rows.
StoreTs(t) ==
  /\ pc[t] = "store_ts"
  /\ _cache' = [_cache EXCEPT !.ts = now[t]]
  /\ cacheBy' = [cacheBy EXCEPT !.ts = t]
  /\ Return(t, rows[t])
  /\ UNCHANGED <<cfgvars, clock, requests, kind, force, gate, fetches, llm, nvars>>

\* requests.post comes back with r: lines 137-144.
LlmResponse(t, r) ==
  /\ pc[t] = "llm"
  /\ LET got == Extract(r)
     IN result' = [result EXCEPT ![t] =
          IF got.ok
          THEN [NoResult EXCEPT !.status = "ok", !.code = 200, !.html = got.html]
          ELSE [NoResult EXCEPT !.status = "error", !.code = 500,
                                !.detail = "Error al consultar modelo: " \o got.err]]
  /\ llm' = [llm EXCEPT ![t] = r]
  /\ pc' = [pc EXCEPT ![t] = "done"]
  /\ UNCHANGED <<cfgvars, clock, requests, _cache, cacheBy, kind, force, gate, now, rows,
                 fetches, llmCalls, nvars>>

\* The LLM call of thread t comes back with any response the endpoint can give.
Answered(t) == \E r \in LlmResponses : LlmResponse(t, r)

\* The response is sent; the thread takes the next request.
Finish(t) ==
  /\ pc[t] = "done"
  /\ pc' = [pc EXCEPT ![t] = "idle"]
  /\ kind' = [kind EXCEPT ![t] = ""]
  /\ force' = [force EXCEPT ![t] = FALSE]
  /\ gate' = [gate EXCEPT ![t] = ""]
  /\ now' = [now EXCEPT ![t] = 0]
  /\ rows' = [rows EXCEPT ![t] = << >>]
  /\ fetches' = [fetches EXCEPT ![t] = 0]
  /\ llmCalls' = [llmCalls EXCEPT ![t] = 0]
  /\ llm' = [llm EXCEPT ![t] = NoLlm]
  /\ result' = [result EXCEPT ![t] = NoResult]
  /\ UNCHANGED <<cfgvars, clock, requests, _cache, cacheBy, nvars>>

Next ==
  \/ Tick
  \/ \E t \in Threads, f \in BOOLEAN : CallLoadData(t, f)
  \/ \E t \in Threads : GetDatos(t)
  \/ \E t \in Threads : PostConsulta(t)
  \/ \E t \in Threads : ReturnCached(t)
  \/ \E t \in Threads : Fetched(t)
  \/ \E t \in Threads : StoreTs(t)
  \/ \E t \in Threads : Answered(t)
  \/ \E t \in Threads : Finish(t)

Spec == Init /\ [][Next]_vars

\* ------------------------------------------------ _normalize_row alone
\* Every alias of every target, and a column the table does not know.
AllKeys == UNION {Range(mapping(target)) : target \in Targets} \cup {"categoria"}

Cells == {None, S(""), S("a"), S("b")}

\* The sets of at most n keys.
RECURSIVE KeySets(_)
KeySets(n) ==
  IF n = 0 THEN {{}}
  ELSE LET smaller == KeySets(n - 1)
       IN smaller \cup {K \cup {k} : K \in smaller, k \in AllKeys}

RawRows == UNION {[K -> Cells] : K \in KeySets(MaxKeys)}

NormInit ==
  /\ InitServer("", "")
  /\ raw \in RawRows
  /\ norm = NoRow

NormalizeRow ==
  /\ norm = NoRow
  /\ norm' = _normalize_row(raw)
  /\ UNCHANGED <<cfgvars, clock, requests, _cache, cacheBy, tvars, raw>>

NormNext == NormalizeRow

NormSpec == NormInit /\ [][NormNext]_vars

\* ================================================================ claims
\* load_data began in this step of thread t (line 50 ran).
Began(t) == pc[t] = "idle" /\ gate'[t] # ""

\* The cache entry is, whole, what one completed load_data call stored.
Populated == cacheBy.ts \in Threads /\ cacheBy.rows = cacheBy.ts

\* The messages load_data raises.
LoadErrors ==
  {"No se configuró DATA_URL", "ConnectionError", "No se pudo descargar datos (404)",
   "JSONDecodeError", InvalidJson, "TypeError"}

\* C1: after a successful load_data call has populated the cache, whatever
\* rows it fetched, a call with force = false that starts while
\* now - fetched_at < TTL (no other call running) is served from the cache:
\* it takes the cached-return path with no network fetch and returns the
\* cached rows.
C1_FreshCallServedFromCache ==
  [][\A t \in Threads :
       /\ ( /\ Began(t)
            /\ ~force'[t]
            /\ \A u \in Threads : pc[u] = "idle"
            /\ Populated
            /\ clock - _cache.ts < CACHE_TTL_SECONDS )
          => (pc'[t] = "hit" /\ fetches'[t] = 0)
       /\ (pc[t] = "hit" /\ pc'[t] = "done")
          => (result'[t].status = "ok" /\ result'[t].rows = _cache.rows
              /\ fetches'[t] = 0)
    ]_vars

\* C2: in every state of the cache, a load_data call (source URL configured)
\* with force = true, or with force = false when now - fetched_at >= TTL
\* (equal included), performs a new network fetch, and on success returns the
\* rows it fetched itself, not rows read back from the cache.
C2_ForceOrStaleRefetches ==
  [][\A t \in Threads :
       /\ ( /\ Began(t)
            /\ DATA_URL # ""
            /\ (force'[t] \/ clock - _cache.ts >= CACHE_TTL_SECONDS) )
          => (pc'[t] = "fetching" /\ fetches'[t] = 1 /\ now'[t] = clock)
       /\ (pc[t] = "store_ts" /\ pc'[t] = "done")
          => (result'[t].status = "ok" /\ result'[t].rows = rows[t] /\ fetches'[t] = 1)
       /\ (pc[t] = "fetching" /\ pc'[t] = "store_ts")
          => (\E r \in FetchResponses(DATA_URL) :
                /\ r.status = 200
                /\ rows'[t] = NormalizeAll(r.body.recs))
    ]_vars

\* A call with force = false that started exactly TTL seconds after the cached
\* timestamp has fetched and stored new rows, and is about to store its
\* timestamp.
C2_Witness ==
  \E t \in Threads :
    /\ pc[t] = "store_ts"
    /\ ~force[t]
    /\ _cache.ts # 0
    /\ now[t] - _cache.ts = CACHE_TTL_SECONDS
    /\ rows[t] = NormalizeAll(<<RawFoo, RawBar>>)

\* A request of thread t ended because load_data raised.
LoadFailed(t) ==
  /\ pc[t] = "done"
  /\ gate[t] = "miss"
  /\ result[t].status = "error"
  /\ llmCalls[t] = 0

\* C3: a load_data call that fails (no source URL, a status other than 200,
\* a body of an unexpected shape) leaves the cache entry as it was: none of
\* the call's steps, from its start to the raise, changes the cached rows or
\* the cached timestamp.
C3_FailureLeavesCache ==
  [][\A t \in Threads :
       ( \/ Began(t)
         \/ (pc[t] # "done" /\ LoadFailed(t)') )
       => _cache' = _cache
    ]_vars

\* A fetch failed while the cache held rows of an earlier call, which are
\* still there.
C3_Witness ==
  \E t \in Threads :
    /\ LoadFailed(t)
    /\ fetches[t] = 1
    /\ Populated
    /\ cacheBy.ts # t
    /\ _cache.rows = NormalizeAll(<<RawFoo>>)
    /\ result[t].detail = InvalidJson

\* C4: when the refresh fetch of a call fails, load_data raises and GET
\* /datos answers 500 with the message in detail; a call that went to the
\* network answers with success only after its own fetch succeeded, with the
\* rows it fetched: stale cached rows are never a successful result.
C4_RefreshFailureIs500 ==
  [][\A t \in Threads :
       /\ (pc[t] = "fetching" /\ pc'[t] = "done")
          => /\ result'[t].status = "error"
             /\ result'[t].detail # ""
             /\ result'[t].rows = << >>
             /\ result'[t].count = 0
             /\ kind[t] = "datos" =>
                  (result'[t].code = 500 /\ result'[t].detail \in LoadErrors)
       /\ (gate[t] = "miss" /\ result[t].status # "ok" /\ result'[t].status = "ok"
           /\ kind[t] # "consulta")
          => (pc[t] = "store_ts" /\ result'[t].rows = rows[t])
    ]_vars

\* GET /datos has answered 500 for a failed refresh while the cache holds
\* rows that are TTL seconds old or older.
C4_Witness ==
  \E t \in Threads :
    /\ LoadFailed(t)
    /\ kind[t] = "datos"
    /\ fetches[t] = 1
    /\ result[t].code = 500
    /\ result[t].detail = "No se pudo descargar datos (404)"
    /\ Populated
    /\ cacheBy.ts # t
    /\ _cache.rows # << >>
    /\ clock - _cache.ts >= CACHE_TTL_SECONDS
    /\ requests = 2

\* C5: in every reachable state the cached rows and the cached timestamp
\* were stored by the same load_data call (or are both the initial values).
C5_CacheEntryWhole == cacheBy.rows = cacheBy.ts

\* C6: _normalize_row returns a record with exactly the six canonical keys;
\* each field is the value of the first alias, in the declared order, that is
\* a key of the raw record with a non-empty value, and "" when there is none.
NonEmpty(row, key) == key \in DOMAIN row /\ row[key] # None /\ row[key] # S("")

C6_FirstNonEmptyAlias ==
  norm # NoRow =>
    /\ DOMAIN norm = Targets
    /\ Cardinality(DOMAIN norm) = 6
    /\ \A target \in Targets :
         LET aliases == mapping(target)
         IN \/ \E i \in DOMAIN aliases :
                 /\ NonEmpty(raw, aliases[i])
                 /\ \A j \in 1..(i - 1) : ~NonEmpty(raw, aliases[j])
                 /\ norm[target] = raw[aliases[i]].s
            \/ /\ \A i \in DOMAIN aliases : ~NonEmpty(raw, aliases[i])
               /\ norm[target] = ""

\* A record whose first alias of "nombre" is present but empty and which has
\* two later aliases with values: the earlier of the two is taken, and a field
\* with no alias is "".
C6_Witness ==
  /\ norm # NoRow
  /\ DOMAIN raw = {"Nombre", "NOMBRE"}
  /\ raw["Nombre"] = S("a")
  /\ raw["NOMBRE"] = S("b")
  /\ norm["nombre"] = "a"
  /\ norm["tutorial"] = ""

\* C7: with no source URL configured no load_data call ever fetches, with or
\* without force; each fails with the configuration error, the cache stays
\* in its initial empty state, and every GET /datos answers 500 with the
\* configuration-error message.
C7_NoUrlNoFetch ==
  DATA_URL = "" =>
    /\ _cache = EmptyCache
    /\ \A t \in Threads :
         /\ fetches[t] = 0
         /\ pc[t] \in {"idle", "done"}
         /\ (pc[t] = "done" /\ kind[t] = "load") =>
              (result[t].status = "error" /\ result[t].detail = "No se configuró DATA_URL")
         /\ (pc[t] = "done" /\ kind[t] = "datos") =>
              /\ result[t].status = "error"
              /\ result[t].code = 500
              /\ result[t].detail = "No se configuró DATA_URL"
              /\ result[t].rows = << >>

\* Without a source URL, a forced load_data call and a GET /datos, a second
\* later, have both failed.
C7_Witness ==
  /\ DATA_URL = ""
  /\ clock > StartTime
  /\ \E t, u \in Threads :
       /\ pc[t] = "done" /\ kind[t] = "load" /\ force[t]
       /\ pc[u] = "done" /\ kind[u] = "datos" /\ result[u].code = 500

\* The LLM call of thread t came back usable: the call succeeded and the
\* first choice's message content is a non-empty string.
GoodLlm(t) ==
  /\ llm[t].net = "ok"
  /\ llm[t].status = 200
  /\ llm[t].json
  /\ llm[t].top = "dict"
  /\ llm[t].choices = "one"
  /\ llm[t].message = "dict"
  /\ llm[t].content.present
  /\ ~llm[t].content.isNone
  /\ llm[t].content.s # ""

\* C8: POST /consulta answers {html: X} only when the LLM call succeeded and
\* the first choice's message content X is non-empty, and then html = X; when
\* the call fails, the response has an unexpected shape or the content is
\* empty, it answers 500 with a detail message, never success with empty html.
C8_HtmlOnlyFromNonEmptyContent ==
  \A t \in Threads :
    (pc[t] = "done" /\ kind[t] = "consulta") =>
      /\ result[t].status = "ok" =>
           /\ llmCalls[t] = 1
           /\ GoodLlm(t)
           /\ result[t].code = 200
           /\ result[t].html = llm[t].content.s
           /\ result[t].html # ""
      /\ (llmCalls[t] = 1 /\ ~GoodLlm(t)) =>
           /\ result[t].status = "error"
           /\ result[t].code = 500
           /\ result[t].detail # ""
           /\ result[t].html = ""
      /\ result[t].status \in {"ok", "error"}

\* POST /consulta has answered with the html the model returned.
C8_Witness ==
  \E t \in Threads :
    /\ pc[t] = "done"
    /\ kind[t] = "consulta"
    /\ llm[t] = LlmShape("one", "dict", Content("<table>B</table>"))
    /\ result[t].status = "ok"
    /\ result[t].html = "<table>B</table>"

\* C9: no retries and no deduplication.  A load_data call (source URL
\* configured) that does not hit the fresh cache issues exactly one fetch,
\* whatever the other threads are doing, and never a second one; a call that
\* hits the fresh cache issues none and its return is never blocked by a
\* refresh in flight.
C9_OneFetchPerMiss ==
  \A t \in Threads :
    /\ fetches[t] <= 1
    /\ gate[t] = "hit" => fetches[t] = 0
    /\ (gate[t] = "miss" /\ DATA_URL # "") => fetches[t] = 1
    /\ pc[t] \in {"fetching", "store_ts"} => (gate[t] = "miss" /\ fetches[t] = 1)
    /\ pc[t] = "hit" => (gate[t] = "hit" /\ ENABLED ReturnCached(t))

\* Two fetches are in flight at once, both started against a cache that held
\* stale rows.
C9_Witness ==
  /\ _cache.rows # << >>
  /\ \E t, u \in Threads :
       /\ t # u
       /\ pc[t] = "fetching" /\ ~force[t]
       /\ pc[u] = "fetching" /\ ~force[u]

====
